---------------------------- MODULE Spec2Model ----------------------------
(***************************************************************************)
(* Model of sequence_models/data.py: the batch-construction pipeline.      *)
(*                                                                         *)
(*   SpecBatch   ApproxBatchSampler.__iter__  (greedy token-budget packer) *)
(*   SpecSortish SortishSampler               (length-bucketed sampler)    *)
(*   SpecMLM     MLMCollater._prep            (masked-LM corruption)       *)
(*                                                                         *)
(* Each specification drives one of the three classes; the variables of    *)
(* the other two stay at their idle values.                                *)
(***************************************************************************)
EXTENDS Integers, Sequences, FiniteSets

VARIABLES
    \* ---- ApproxBatchSampler ----
    sample_lengths,   \* self.sample_lengths : dataset index -> length
    max_tokens,       \* self.max_tokens
    max_batch,        \* self.max_batch
    sampler,          \* the index stream self.sampler produces (a sequence)
    pos,              \* how many indices of the stream the for loop has consumed
    batch,            \* local `batch` of __iter__
    length,           \* local `length` of __iter__
    yielded,          \* the batches the generator has yielded so far, in order
    pc,               \* generator position: "idle", "run" (head of the for
                      \* loop), "yield358", "yield362" (suspended at that
                      \* line's yield), "done"
    \* ---- SortishSampler: one sampler object per rank, same other inputs ----
    sequence_lengths, \* constructor argument: dataset index -> length
    bucket_size,      \* self.bucket_size
    num_replicas,     \* self.num_replicas
    data,             \* rank -> self.data, the list of buckets (shuffled in place)
    epoch,            \* rank -> self.epoch
    result,           \* rank -> outcome of the sampler's latest __iter__ call
    \* ---- MLMCollater._prep ----
    sequences,        \* the argument: the batch of raw sequences
    seq_i,            \* how many of them the for loop has processed
    tgt,              \* local `tgt`
    src,              \* local `src`
    mask,             \* local `mask`
    mod_idxs,         \* the `mod_idx` drawn for each row appended to src
    mpc               \* position in _prep: "idle", "loop", "done", "ValueError"

bvars == <<sample_lengths, max_tokens, max_batch, sampler, pos, batch, length,
           yielded, pc>>

svars == <<sequence_lengths, bucket_size, num_replicas, data, epoch, result>>

mvars == <<sequences, seq_i, tgt, src, mask, mod_idxs, mpc>>

vars == <<bvars, svars, mvars>>

-----------------------------------------------------------------------------
(* Bounds of the model.                                                    *)

NumIdx == 2        \* dataset indices are 0 .. NumIdx-1
MaxLength == 3     \* sequence lengths are 1 .. MaxLength
MaxStream == 4     \* the index stream has at most MaxStream elements
MaxTokens == 3     \* max_tokens is 1 .. MaxTokens
MaxBatch == 2      \* max_batch is 1 .. MaxBatch
MaxData == 3       \* SortishSampler: the dataset has 1 .. MaxData sequences
MaxSeqLen == 2     \* SortishSampler: sequence lengths are 1 .. MaxSeqLen
MaxReplicas == 3   \* SortishSampler: num_replicas is 1 .. MaxReplicas
MaxEpoch == 1      \* SortishSampler: set_epoch is called with 0 .. MaxEpoch
NumAAS == 2        \* MLMCollater: how many amino-acid symbols ALL_AAS holds
MaxRows == 3       \* MLMCollater: a batch has at most MaxRows sequences ...
MaxTotal == 3      \* ... holding at most MaxTotal symbols altogether,
MaxLongLen == 14   \* or is one sequence of up to MaxLongLen symbols

-----------------------------------------------------------------------------
(* Helpers (Python built-ins).                                             *)

Max(a, b) == IF a >= b THEN a ELSE b

Min(a, b) == IF a <= b THEN a ELSE b

\* All sequences over S of length 0 .. n
SeqsUpTo(S, n) == UNION {[1..k -> S] : k \in 0..n}

RECURSIVE Flatten(_)
Flatten(ss) == IF ss = <<>> THEN <<>> ELSE Head(ss) \o Flatten(Tail(ss))

\* number of positions of sequence s holding x
Count(s, x) == Cardinality({k \in 1..Len(s) : s[k] = x})

-----------------------------------------------------------------------------
(* The state of a class no object of which has been constructed.           *)

BatchIdle ==
    /\ sample_lengths = <<>>
    /\ max_tokens = 0
    /\ max_batch = 0
    /\ sampler = <<>>
    /\ pos = 0
    /\ batch = <<>>
    /\ length = 0
    /\ yielded = <<>>
    /\ pc = "idle"

SortishIdle ==
    /\ sequence_lengths = <<>>
    /\ bucket_size = 0
    /\ num_replicas = 0
    /\ data = <<>>
    /\ epoch = <<>>
    /\ result = <<>>

MLMIdle ==
    /\ sequences = <<>>
    /\ seq_i = 0
    /\ tgt = <<>>
    /\ src = <<>>
    /\ mask = <<>>
    /\ mod_idxs = <<>>
    /\ mpc = "idle"

-----------------------------------------------------------------------------
(* SortishSampler                                                          *)

\* The low 8 bits of the first outputs of NumPy's MT19937 after
\* np.random.seed(e), for e = 0, 1, 2, 3 (row e + 1).  random_interval(max)
\* reads only the bits under the smallest mask 2^k - 1 >= max, so for lists
\* shorter than 256 the low 8 bits decide every draw.
MT19937Low8 ==
    << <<172, 47, 117, 192, 67, 251, 195, 103, 9, 211, 21, 242, 36, 87, 70, 216>>,
       <<37, 235, 140, 72, 255, 137, 203, 133, 79, 192, 144, 129, 204, 71, 237, 252>>,
       <<168, 15, 237, 72, 22, 43, 210, 75, 104, 7, 162, 177, 95, 75, 213, 47>>,
       <<106, 152, 249, 131, 184, 200, 0, 21, 253, 147, 202, 107, 249, 169, 138, 149>> >>

\* next_uint32 of the generator seeded with `seed`, after p earlier draws
NextUInt8(seed, p) == MT19937Low8[seed + 1][p + 1]

\* smallest 2^k - 1 >= max
RECURSIVE BitMask(_, _)
BitMask(max, m) == IF m >= max THEN m ELSE BitMask(max, 2 * m + 1)

\* random_interval: 0 without a draw when max = 0, otherwise rejection
\* sampling of a value in 0 .. max.
\* Returns <<value, number of draws consumed so far>>.
RECURSIVE RandomInterval(_, _, _)
RandomInterval(seed, p, max) ==
    IF max = 0 THEN <<0, p>>
    ELSE LET value == NextUInt8(seed, p) % (BitMask(max, 0) + 1)
         IN IF value <= max THEN <<value, p + 1>>
            ELSE RandomInterval(seed, p + 1, max)

\* x with the elements at (1-based) positions a and b exchanged
Swap(x, a, b) ==
    [k \in 1..Len(x) |-> IF k = a THEN x[b] ELSE IF k = b THEN x[a] ELSE x[k]]

\* np.random.shuffle(x) in place: for i in reversed(range(1, n)):
\* j = random_interval(i); x[i], x[j] = x[j], x[i].  i is 0-based here.
\* Returns <<shuffled x, number of draws consumed so far>>.
RECURSIVE ShuffleFrom(_, _, _, _)
ShuffleFrom(x, i, seed, p) ==
    IF i < 1 THEN <<x, p>>
    ELSE LET d == RandomInterval(seed, p, i)
         IN ShuffleFrom(Swap(x, i + 1, d[1] + 1), i - 1, seed, d[2])

Shuffle(x, seed, p) == ShuffleFrom(x, Len(x) - 1, seed, p)

\* the for loop of lines 307-308: every bucket shuffled in turn, from bucket k
RECURSIVE ShuffleBuckets(_, _, _, _)
ShuffleBuckets(bs, k, seed, p) ==
    IF k > Len(bs) THEN <<bs, p>>
    ELSE LET sh == Shuffle(bs[k], seed, p)
         IN ShuffleBuckets([j \in 1..Len(bs) |-> IF j = k THEN sh[1] ELSE bs[j]],
                           k + 1, seed, sh[2])

\* np.argsort(sequence_lengths): indices by ascending length; NumPy sorts
\* arrays this short by insertion, which keeps equal lengths in index order
RECURSIVE InsertSorted(_, _, _)
InsertSorted(sorted, i, lens) ==
    IF sorted = <<>> THEN <<i>>
    ELSE IF lens[sorted[Len(sorted)]] <= lens[i] THEN Append(sorted, i)
    ELSE Append(InsertSorted(SubSeq(sorted, 1, Len(sorted) - 1), i, lens),
                sorted[Len(sorted)])

RECURSIVE ArgSortFrom(_, _, _)
ArgSortFrom(sorted, i, lens) ==
    IF i \notin DOMAIN lens THEN sorted
    ELSE ArgSortFrom(InsertSorted(sorted, i, lens), i + 1, lens)

ArgSort(lens) == ArgSortFrom(<<>>, 0, lens)

\* ceil(a / b) for a >= 0, b >= 1 (math.ceil, np.ceil on the quotient)
CeilDiv(a, b) == (a + b - 1) \div b

\* self.num_samples, line 297
NumSamples(n, nrep) == CeilDiv(n, nrep)

\* self.total_size, line 303
TotalSize(n, nrep) == NumSamples(n, nrep) * nrep

\* lines 299-300: the sorted indices cut into buckets of bucket_size
Buckets(sorted, bsize) ==
    [i \in 1..CeilDiv(Len(sorted), bsize) |->
        SubSeq(sorted, (i - 1) * bsize + 1, Min(i * bsize, Len(sorted)))]

\* self.data as __init__ leaves it
InitialData(lens, bsize) == Buckets(ArgSort(lens), bsize)

\* a Python slice s[:k] for k >= 0
Prefix(s, k) == SubSeq(s, 1, Min(k, Len(s)))

\* line 311: indices += indices[:(total_size - len(indices))]
Pad(indices, total) == indices \o Prefix(indices, total - Len(indices))

\* line 314: indices[rank:total_size:num_replicas]
Subsample(indices, rank, total, nrep) ==
    LET stop == Min(total, Len(indices))
        cnt == IF stop > rank THEN CeilDiv(stop - rank, nrep) ELSE 0
    IN [k \in 1..cnt |-> indices[rank + (k - 1) * nrep + 1]]

\* __iter__ (lines 305-316) of the sampler of rank `rank` whose self.data is d
\* and self.epoch is e: the new self.data and what the call produces.
Iterate(d, e, rank, n, nrep) ==
    LET sb == ShuffleBuckets(d, 1, e, 0)
        sd == Shuffle(sb[1], e, sb[2])
        indices == Pad(Flatten(sd[1]), TotalSize(n, nrep))
        sub == Subsample(indices, rank, TotalSize(n, nrep), nrep)
    IN [data |-> sd[1],
        status |-> IF Len(indices) # TotalSize(n, nrep) THEN "AssertionError"
                   ELSE IF Len(sub) # NumSamples(n, nrep) THEN "AssertionError"
                   ELSE "ok",
        indices |-> IF Len(indices) = TotalSize(n, nrep)
                       /\ Len(sub) = NumSamples(n, nrep)
                    THEN sub ELSE <<>>]

Ranks == 0..(num_replicas - 1)

\* len(self.data) before the bucketing, the size of the dataset
DataSize == Cardinality(DOMAIN sequence_lengths)

NoResult == [status |-> "none", indices |-> <<>>, epoch |-> 0]

\* __init__ (lines 294-303) for the samplers of all ranks
SortishInit ==
    /\ BatchIdle
    /\ MLMIdle
    /\ \E n \in 1..MaxData : sequence_lengths \in [0..(n - 1) -> 1..MaxSeqLen]
    /\ bucket_size \in 1..MaxData
    /\ num_replicas \in 1..MaxReplicas
    /\ data = [r \in Ranks |-> InitialData(sequence_lengths, bucket_size)]
    /\ epoch = [r \in Ranks |-> 0]
    /\ result = [r \in Ranks |-> NoResult]

\* set_epoch, lines 321-322
SetEpoch(r, e) ==
    /\ epoch' = [epoch EXCEPT ![r] = e]
    /\ UNCHANGED <<sequence_lengths, bucket_size, num_replicas, data, result>>
    /\ UNCHANGED <<bvars, mvars>>

\* __iter__ on the sampler of rank r
Iter(r) ==
    LET it == Iterate(data[r], epoch[r], r, DataSize, num_replicas)
    IN /\ data' = [data EXCEPT ![r] = it.data]
       /\ result' = [result EXCEPT ![r] =
             [status |-> it.status, indices |-> it.indices, epoch |-> epoch[r]]]
       /\ UNCHANGED <<sequence_lengths, bucket_size, num_replicas, epoch>>
       /\ UNCHANGED <<bvars, mvars>>

NextSortish ==
    \/ \E r \in Ranks : Iter(r)
    \/ \E r \in Ranks : \E e \in 0..MaxEpoch : SetEpoch(r, e)

SpecSortish == SortishInit /\ [][NextSortish]_vars

-----------------------------------------------------------------------------
(* Claims about SortishSampler (checked under SpecSortish).                *)

\* the set of values in sequence s
Range(s) == {s[k] : k \in 1..Len(s)}

\* C3: every __iter__ call passes both assertions and yields exactly
\* num_samples = ceil(n / num_replicas) indices, which is __len__().
C3_IterYieldsNumSamples ==
    \A r \in Ranks :
        result[r].status # "none" =>
            /\ result[r].status = "ok"
            /\ Len(result[r].indices) = NumSamples(DataSize, num_replicas)

\* C4: what an __iter__ call produces depends only on the constructor inputs
\* and the epoch it ran with: it equals what a newly constructed sampler with
\* the same inputs produces at that epoch, whatever calls came before.
C4_OutputDependsOnlyOnEpoch ==
    \A r \in Ranks :
        result[r].status # "none" =>
            LET fresh == Iterate(InitialData(sequence_lengths, bucket_size),
                                 result[r].epoch, r, DataSize, num_replicas)
            IN /\ result[r].status = fresh.status
               /\ result[r].indices = fresh.indices

\* C5: when the samplers of all ranks have run __iter__ with one epoch value,
\* every yielded value is a dataset index and every dataset index 0 .. n-1 is
\* yielded by at least one rank.
C5_UnionOfRanksCoversDataset ==
    (\A r \in Ranks : /\ result[r].status # "none"
                      /\ result[r].epoch = result[0].epoch)
    => UNION {Range(result[r].indices) : r \in Ranks} = DOMAIN sequence_lengths

-----------------------------------------------------------------------------
(* MLMCollater._prep                                                       *)

\* sequence_models.constants: the amino-acid symbols and the control symbols
ALL_AAS == SubSeq(<<"A", "C", "D", "E", "F">>, 1, NumAAS)

MASK == "#"

PAD == "-"

\* the tokenizer's alphabet: the amino acids, then the control symbols
Alphabet == ALL_AAS \o <<PAD, MASK>>

\* Tokenizer.tokenize: every symbol to its index in the alphabet (0-based)
Tokenize(s) ==
    [k \in 1..Len(s) |-> (CHOOSE a \in 1..Len(Alphabet) : Alphabet[a] = s[k]) - 1]

\* self.tokenizer.alphabet.index(PAD), line 240
PadIdx == (CHOOSE a \in 1..Len(Alphabet) : Alphabet[a] = PAD) - 1

\* Python's round(num / den) for num >= 0, den > 0: nearest, ties to even
PyRound(num, den) ==
    LET q == num \div den
        r == num % den
    IN IF 2 * r > den \/ (2 * r = den /\ q % 2 = 1) THEN q + 1 ELSE q

\* faulty variant of NumToModify: round() instead of int()
NumToModifyRounded(len) == PyRound(15 * len, 100)

\* int(len(seq) * 0.15), line 221: the product truncated
NumToModify(len) == (15 * len) \div 100

\* the subsets of 0 .. len-1 that random.sample (line 221) or, when that is
\* empty, np.random.choice (lines 222-223) can draw as mod_idx
ModIdxChoices(len) ==
    IF NumToModify(len) = 0
    THEN {{j} : j \in 0..(len - 1)}
    ELSE {S \in SUBSET (0..(len - 1)) : Cardinality(S) = NumToModify(len)}

\* lines 226-232: what a chosen position can become: its own symbol (p <= 0.10),
\* another amino acid (0.10 < p <= 0.20), or MASK
ModChoices(sym) ==
    {sym} \cup {ALL_AAS[a] : a \in {b \in 1..Len(ALL_AAS) : ALL_AAS[b] # sym}}
          \cup {MASK}

\* faulty variant of RemoveFirst: the list is left as it is
RemoveNothing(l, x) == l

\* list.remove(x), line 219: l without its first element equal to x
RECURSIVE RemoveFirst(_, _)
RemoveFirst(l, x) ==
    IF l = <<>> THEN <<>>
    ELSE IF Head(l) = x THEN Tail(l)
    ELSE <<Head(l)>> \o RemoveFirst(Tail(l), x)

\* lines 235-236: m = torch.zeros(len); m[mod_idx] = 1
MaskRow(len, mod_idx) == [k \in 1..len |-> IF (k - 1) \in mod_idx THEN 1 ELSE 0]

\* max(len(t) for t in rows), line 187 (rows is not empty)
MaxLen(rows) ==
    CHOOSE m \in {Len(rows[r]) : r \in 1..Len(rows)} :
        \A r \in 1..Len(rows) : Len(rows[r]) <= m

\* _pad, lines 185-191: a batch_size x max_len tensor filled with value, each
\* row overwritten from its start by the tokenized sequence
PadRows(rows, value) ==
    [r \in 1..Len(rows) |->
        [k \in 1..MaxLen(rows) |-> IF k <= Len(rows[r]) THEN rows[r][k] ELSE value]]

\* the sequence of length len that repeats ALL_AAS, starting at its a-th symbol
PatternSeq(len, a) == [k \in 1..len |-> ALL_AAS[((a + k - 2) % NumAAS) + 1]]

\* the strings over ALL_AAS of exactly len symbols
StringsOfLen(len) == [1..len -> {ALL_AAS[a] : a \in 1..NumAAS}]

\* the batches of at most rows sequences holding at most total symbols
RECURSIVE ShortBatches(_, _)
ShortBatches(rows, total) ==
    IF rows = 0 THEN {<<>>}
    ELSE {<<>>} \cup
         UNION {{<<s>> \o b : s \in StringsOfLen(len),
                              b \in ShortBatches(rows - 1, total - len)}
                : len \in 0..total}

LongBatches == {<<PatternSeq(len, a)>> : len \in 1..MaxLongLen, a \in 1..NumAAS}

\* _prep is entered: lines 214-216
MLMInit ==
    /\ BatchIdle
    /\ SortishIdle
    /\ sequences \in ShortBatches(MaxRows, MaxTotal) \cup LongBatches
    /\ seq_i = 0
    /\ tgt = sequences
    /\ src = <<>>
    /\ mask = <<>>
    /\ mod_idxs = <<>>
    /\ mpc = "loop"

\* one pass of the for loop of lines 217-237
PrepSeq ==
    /\ mpc = "loop"
    /\ seq_i < Len(sequences)
    /\ seq_i' = seq_i + 1
    /\ LET seq == sequences[seq_i + 1]
       IN \/ /\ Len(seq) = 0
             /\ tgt' = RemoveFirst(tgt, seq)
             /\ UNCHANGED <<src, mask, mod_idxs>>
          \/ /\ Len(seq) # 0
             /\ \E mod_idx \in ModIdxChoices(Len(seq)) :
                \E mod \in [mod_idx -> ({ALL_AAS[a] : a \in 1..NumAAS} \cup {MASK})] :
                   /\ \A j \in mod_idx : mod[j] \in ModChoices(seq[j + 1])
                   /\ src' = Append(src,
                         [k \in 1..Len(seq) |->
                             IF (k - 1) \in mod_idx THEN mod[k - 1] ELSE seq[k]])
                   /\ mask' = Append(mask, MaskRow(Len(seq), mod_idx))
                   /\ mod_idxs' = Append(mod_idxs, mod_idx)
             /\ tgt' = tgt
    /\ UNCHANGED <<sequences, mpc>>
    /\ UNCHANGED <<bvars, svars>>

\* lines 238-244: tokenize and pad the three lists; with no row to pad,
\* max() of an empty sequence raises ValueError in _pad
PrepPad ==
    /\ mpc = "loop"
    /\ seq_i = Len(sequences)
    /\ \/ /\ src # <<>>
          /\ src' = PadRows([r \in 1..Len(src) |-> Tokenize(src[r])], PadIdx)
          /\ tgt' = PadRows([r \in 1..Len(tgt) |-> Tokenize(tgt[r])], PadIdx)
          /\ mask' = PadRows(mask, 0)
          /\ mpc' = "done"
       \/ /\ src = <<>>
          /\ mpc' = "ValueError"
          /\ UNCHANGED <<src, tgt, mask>>
    /\ UNCHANGED <<sequences, seq_i, mod_idxs>>
    /\ UNCHANGED <<bvars, svars>>

NextMLM == PrepSeq \/ PrepPad

SpecMLM == MLMInit /\ [][NextMLM]_vars

-----------------------------------------------------------------------------
(* Claims about MLMCollater._prep (checked under SpecMLM).                 *)

IsNonEmpty(s) == Len(s) > 0

\* the non-empty input sequences, in input order
NonEmptyInputs == SelectSeq(sequences, IsNonEmpty)

\* how many positions of a mask row hold 1
Ones(row) == Cardinality({k \in 1..Len(row) : row[k] = 1})

\* C7 (as stated): the mask row of every non-empty sequence of length L marks
\* exactly max(1, round(0.15 * L)) positions; for L = 10 that is 2.
C7_MaskCountIsRounded ==
    mpc = "done" =>
        \A r \in 1..Len(mask) :
            Ones(mask[r]) = Max(1, PyRound(15 * Len(NonEmptyInputs[r]), 100))

\* C7 (amended): the mask row of every non-empty sequence of length L marks
\* exactly max(1, int(0.15 * L)) positions, the product truncated and not
\* rounded; for L = 10 that is 1.
C7_MaskCountIsTruncated ==
    mpc = "done" =>
        /\ Len(mask) = Len(NonEmptyInputs)
        /\ \A r \in 1..Len(mask) :
              Ones(mask[r]) = Max(1, (15 * Len(NonEmptyInputs[r])) \div 100)

\* C7 witness: a sequence of length 10 has been collated with exactly one
\* position marked (rounding would mark two).
C7_Witness ==
    /\ mpc = "done"
    /\ \E r \in 1..Len(mask) :
          /\ Len(NonEmptyInputs[r]) = 10
          /\ Ones(mask[r]) = 1
          /\ src[r] # tgt[r]

\* C8: for a batch with a non-empty sequence, src, target and mask have one
\* row per non-empty input, in input order; target row r is the tokenized r-th
\* non-empty input, padded; src row r differs from it only where the mask is 1;
\* the mask is 1 exactly on the chosen positions and 0 elsewhere, padding
\* included; all three tensors have the same shape.
C8_RowsAlignedAndMaskExact ==
    mpc = "done" =>
        LET ne == NonEmptyInputs
            width == MaxLen(ne)
        IN /\ Len(src) = Len(ne)
           /\ Len(tgt) = Len(ne)
           /\ Len(mask) = Len(ne)
           /\ \A r \in 1..Len(ne) :
                 /\ Len(src[r]) = width
                 /\ Len(tgt[r]) = width
                 /\ Len(mask[r]) = width
                 /\ \A k \in 1..width :
                       /\ tgt[r][k] = (IF k <= Len(ne[r])
                                       THEN Tokenize(ne[r])[k] ELSE PadIdx)
                       /\ src[r][k] # tgt[r][k] => mask[r][k] = 1
                       /\ mask[r][k] = (IF (k - 1) \in mod_idxs[r] THEN 1 ELSE 0)
                       /\ k > Len(ne[r]) => (src[r][k] = PadIdx /\ mask[r][k] = 0)

\* C8 witness: a batch that starts with a zero-length sequence, followed by two
\* non-empty ones of different lengths, collated with a symbol changed.
C8_Witness ==
    /\ mpc = "done"
    /\ Len(sequences) = 3
    /\ Len(sequences[1]) = 0
    /\ Len(sequences[2]) > Len(sequences[3])
    /\ Len(sequences[3]) > 0
    /\ Len(src) = 2
    /\ \E r \in 1..2 : \E k \in 1..Len(src[r]) : src[r][k] # tgt[r][k]

-----------------------------------------------------------------------------
(* ApproxBatchSampler                                                      *)

\* __init__ followed by the first lines of __iter__ (batch = [], length = 0)
BatchInit ==
    /\ SortishIdle
    /\ MLMIdle
    /\ sample_lengths \in [0..(NumIdx - 1) -> 1..MaxLength]
    /\ max_tokens \in 1..MaxTokens
    /\ max_batch \in 1..MaxBatch
    /\ sampler \in SeqsUpTo(0..(NumIdx - 1), MaxStream)
    /\ pos = 0
    /\ batch = <<>>
    /\ length = 0
    /\ yielded = <<>>
    /\ pc = "run"

\* faulty variant of Fits: the candidate itself is not counted
FitsNoPlusOne(idx) ==
    Len(batch) * Max(length, sample_lengths[idx]) <= max_tokens

\* the test of line 354 for the next index idx
Fits(idx) ==
    (Len(batch) + 1) * Max(length, sample_lengths[idx]) <= max_tokens

\* the test of line 357, on the batch after the append
IsFull(b) == Len(b) = max_batch

\* faulty variant of AppendIdx: the index is put in front
PrependIdx(b, idx) == <<idx>> \o b

\* batch.append(idx), line 355
AppendIdx(b, idx) == Append(b, idx)

\* the local `idx` once the for loop has consumed pos >= 1 indices (line 352)
CurIdx == sampler[pos]

\* the local `this_length` for that index (line 353)
ThisLength == sample_lengths[CurIdx]

\* one pass of the for loop from its head (line 352) to the next point where
\* the generator stops running: the head of the loop again when nothing is
\* yielded, or the yield of line 358 or of line 362, where the generator is
\* suspended with its locals as they are at the yield (batch and length are
\* not yet reset)
BatchStep ==
    /\ pc = "run"
    /\ pos < Len(sampler)
    /\ LET idx == sampler[pos + 1]
           this_length == sample_lengths[idx]
       IN /\ pos' = pos + 1
          /\ \/ /\ Fits(idx)
                /\ ~IsFull(AppendIdx(batch, idx))
                /\ batch' = AppendIdx(batch, idx)
                /\ length' = Max(length, this_length)
                /\ yielded' = yielded
                /\ pc' = "run"
             \/ /\ Fits(idx)
                /\ IsFull(AppendIdx(batch, idx))
                /\ batch' = AppendIdx(batch, idx)
                /\ length' = Max(length, this_length)
                /\ yielded' = Append(yielded, AppendIdx(batch, idx))
                /\ pc' = "yield358"
             \/ /\ ~Fits(idx)
                /\ yielded' = Append(yielded, batch)
                /\ batch' = batch
                /\ length' = length
                /\ pc' = "yield362"
    /\ UNCHANGED <<sample_lengths, max_tokens, max_batch, sampler>>
    /\ UNCHANGED <<svars, mvars>>

\* the generator is resumed after the yield of line 358: lines 359-360, then
\* the head of the loop
BatchResumeFull ==
    /\ pc = "yield358"
    /\ batch' = <<>>
    /\ length' = 0
    /\ pc' = "run"
    /\ UNCHANGED <<sample_lengths, max_tokens, max_batch, sampler, pos, yielded>>
    /\ UNCHANGED <<svars, mvars>>

\* the generator is resumed after the yield of line 362: lines 363-364, then
\* the head of the loop
BatchResumeOverflow ==
    /\ pc = "yield362"
    /\ batch' = <<CurIdx>>
    /\ length' = ThisLength
    /\ pc' = "run"
    /\ UNCHANGED <<sample_lengths, max_tokens, max_batch, sampler, pos, yielded>>
    /\ UNCHANGED <<svars, mvars>>

\* the sampler is exhausted: the for loop ends and so does the generator;
\* nothing follows the loop, so the pending batch is not yielded
BatchExhaust ==
    /\ pc = "run"
    /\ pos = Len(sampler)
    /\ pc' = "done"
    /\ UNCHANGED <<sample_lengths, max_tokens, max_batch, sampler, pos, batch,
                   length, yielded>>
    /\ UNCHANGED <<svars, mvars>>

\* a generator left suspended at a yield and never resumed stutters
NextBatch == BatchStep \/ BatchResumeFull \/ BatchResumeOverflow \/ BatchExhaust

SpecBatch == BatchInit /\ [][NextBatch]_vars

-----------------------------------------------------------------------------
(* Claims about ApproxBatchSampler (checked under SpecBatch).              *)

\* max(sample_lengths[i] for i in b), 0 for the empty batch
MaxLengthIn(b) ==
    IF b = <<>> THEN 0
    ELSE CHOOSE m \in {sample_lengths[b[k]] : k \in 1..Len(b)} :
            \A k \in 1..Len(b) : sample_lengths[b[k]] <= m

OverBudget(idx) == sample_lengths[idx] > max_tokens

\* C1: every batch the generator yields has at most max_batch indices and
\* len(batch) * (longest length in the batch) <= max_tokens.
C1_EveryBatchWithinBudget ==
    \A k \in 1..Len(yielded) :
        /\ Len(yielded[k]) <= max_batch
        /\ Len(yielded[k]) * MaxLengthIn(yielded[k]) <= max_tokens

\* C2: once the generator has finished, every index the sampler produced is in
\* exactly one yielded batch: each index occurs in the yielded batches as often
\* as in the stream (a non-empty pending batch was flushed).
C2_TrailingBatchFlushed ==
    pc = "done" =>
        \A i \in 0..(NumIdx - 1) : Count(Flatten(yielded), i) = Count(sampler, i)

\* C6: once an index whose length alone exceeds max_tokens has been consumed,
\* the iteration has raised (the generator is at "raised", a position no
\* statement of __iter__ leads to), and no yielded batch contains such an index.
C6_OverBudgetIndexRaises ==
    (\E k \in 1..pos : OverBudget(sampler[k])) =>
        /\ pc = "raised"
        /\ \A j \in 1..Len(yielded) : \A k \in 1..Len(yielded[j]) :
              ~OverBudget(yielded[j][k])

\* the indices the generator has consumed and not yet yielded: the local
\* `batch` at the head of the loop and after the loop; nothing while the
\* generator is suspended at line 358 (the local `batch` is still the list
\* just yielded, line 359 has not run); the local `idx` while it is suspended
\* at line 362 (line 363 has not yet made it the new batch)
Pending ==
    CASE pc = "yield358" -> <<>>
      [] pc = "yield362" -> <<CurIdx>>
      [] OTHER -> batch

\* C9: at every point, suspended at a yield or not, the yielded batches
\* concatenated in order, followed by the pending indices, are exactly the
\* consumed prefix of the index stream; and while the generator is suspended
\* at a yield, the local `batch` is the batch just yielded.
C9_SinglePassInOrder ==
    /\ Flatten(yielded) \o Pending = SubSeq(sampler, 1, pos)
    /\ pc \in {"yield358", "yield362"} => batch = yielded[Len(yielded)]

\* C9 witness: the generator is suspended at a yield with three batches
\* yielded, one of them with several indices, and an index pending, so that
\* the concatenation has non-trivial parts and both yields have been passed.
C9_Witness ==
    /\ pc = "yield362"
    /\ Len(yielded) >= 3
    /\ \E j \in 1..Len(yielded) : Len(yielded[j]) >= 2
    /\ \E j \in 1..Len(yielded) : Len(yielded[j]) = max_batch

\* C10: a loop pass yields an empty batch exactly when the arriving index is
\* over budget on its own and nothing is pending; nothing is pending only at
\* the start of the stream or right after a yield triggered by max_batch
\* (suspended at that yield or resumed from it); and if no length of the stream exceeds max_tokens, no yielded
\* batch is empty.
C10_EmptyBatchExactlyOnOverBudget ==
    /\ [][pos' = pos + 1 =>
            ((Pending = <<>> /\ OverBudget(sampler[pos + 1]))
              <=> (/\ Len(yielded') = Len(yielded) + 1
                   /\ yielded'[Len(yielded')] = <<>>))]_vars
    /\ []((pc # "idle" /\ Pending = <<>>) =>
            \/ pos = 0
            \/ /\ yielded # <<>>
               /\ Len(yielded[Len(yielded)]) = max_batch)
    /\ []((\A k \in 1..Len(sampler) : ~OverBudget(sampler[k])) =>
            \A j \in 1..Len(yielded) : yielded[j] # <<>>)

\* C10 witness: an empty batch yielded right after a max_batch-triggered yield.
C10_Witness ==
    \E j \in 2..Len(yielded) :
        /\ yielded[j] = <<>>
        /\ Len(yielded[j - 1]) = max_batch
        /\ OverBudget(sampler[pos])

=============================================================================
